---- MODULE Spec2Model ----
(***************************************************************************)
(* Model of the auto-claim orchestration of boop-airdrop-redeemer:         *)
(* pkg/autoclaim (Service, DecisionMaker, PriceTracker), the airdrop       *)
(* store and scanner of pkg/service, and the claimer.                      *)
(*                                                                         *)
(* Time is counted in ticks of ten minutes.   USD amounts are the decimal  *)
(* strings the API delivers; ParseFloat turns them into thousandths of a   *)
(* dollar, which represents every decimal of up to three places exactly.   *)
(***************************************************************************)
EXTENDS Integers, Sequences, FiniteSets, TLC

(***************************************************************************)
(* Bounds of the model.                                                    *)
(***************************************************************************)
\* latest tick of the clock (tick = 10 minutes)
MaxTime == 2

\* the longest sequence of SaveAirdrop calls
MaxSaves == 3

\* the airdrop ids the platform can report
AirdropIDs == {"a1", "a2"}

\* amountUsd strings a scan can deliver for each airdrop in the polling
\* model: a1 moves between the stability tier and the default threshold's
\* tier, a2 stays above the threshold
ScanUsd == [a1 |-> {"0.08", "0.20"}, a2 |-> {"0.20"}]

\* amountLpt of each airdrop (the platform fixes an airdrop's amount): one
\* that parses, one that does not
ScanLpt == [a1 |-> "1000", a2 |-> "12x"]

\* amountUsd strings offered to the decision functions
DecisionUsd == {"0", "0.05", "0.07", "0.08", "0.099", "0.10", "0.15", "0.20", "0.50", "abc", ""}

\* thresholds (thousandths of a dollar) offered to the decision functions
DecisionThresholds == {50, 150, 500}

(***************************************************************************)
(* Program constants.                                                      *)
(***************************************************************************)
\* 10*time.Minute, in ticks
TenMinutes == 1

\* 30*time.Minute, in ticks
ThirtyMinutes == 3

\* 0.07 dollars, the lower edge of the stability tier
StabilityFloor == 70

\* 0.10 dollars, the direct-sell floor
SellFloor == 100

\* default MINIMUM_USD_THRESHOLD "0.15"
MinimumUsdThreshold == 150

\* threshold handed to ScanAirdrops by processAirdrops: 0.001
ScanThreshold == 1

\* maxRetries handed to SwapTokenForSolWithRetries by SwapTokenForSol
MaxRetries == 10

\* the sleeps of the polling task, in seconds: handleScanError after a
\* network error and after any other scan error, processAirdrops after a
\* claim, Start between two cycles (default CHECK_INTERVAL)
NetworkBackoff == 3
ScanErrorBackoff == 30
ClaimPause == 60
CheckInterval == 60

(***************************************************************************)
(* Strings.  TLC treats a string as a sequence of characters for Len,      *)
(* SubSeq and \o, which is enough to model Go's strings package.           *)
(***************************************************************************)
CharAt(s, i) == SubSeq(s, i, i)

\* strings.Contains
Contains(s, sub) ==
    \E i \in 1..(Len(s) - Len(sub) + 1) : SubSeq(s, i, i + Len(sub) - 1) = sub

LowerChar(c) ==
    CASE c = "A" -> "a" [] c = "B" -> "b" [] c = "C" -> "c" [] c = "D" -> "d"
      [] c = "E" -> "e" [] c = "F" -> "f" [] c = "G" -> "g" [] c = "H" -> "h"
      [] c = "I" -> "i" [] c = "J" -> "j" [] c = "K" -> "k" [] c = "L" -> "l"
      [] c = "M" -> "m" [] c = "N" -> "n" [] c = "O" -> "o" [] c = "P" -> "p"
      [] c = "Q" -> "q" [] c = "R" -> "r" [] c = "S" -> "s" [] c = "T" -> "t"
      [] c = "U" -> "u" [] c = "V" -> "v" [] c = "W" -> "w" [] c = "X" -> "x"
      [] c = "Y" -> "y" [] c = "Z" -> "z" [] OTHER -> c

\* strings.ToLower (the two halves are bound as values, so that each is
\* computed once)
RECURSIVE ToLower(_)
ToLower(s) ==
    IF Len(s) = 0 THEN s
    ELSE IF Len(s) = 1 THEN LowerChar(s)
    ELSE CHOOSE lower \in {ToLower(left) \o ToLower(right) :
                               left \in {SubSeq(s, 1, Len(s) \div 2)},
                               right \in {SubSeq(s, Len(s) \div 2 + 1, Len(s))}} : TRUE

Digits == {"0", "1", "2", "3", "4", "5", "6", "7", "8", "9"}

DigitVal(c) ==
    CASE c = "0" -> 0 [] c = "1" -> 1 [] c = "2" -> 2 [] c = "3" -> 3
      [] c = "4" -> 4 [] c = "5" -> 5 [] c = "6" -> 6 [] c = "7" -> 7
      [] c = "8" -> 8 [] c = "9" -> 9

IsDigits(s) == \A i \in 1..Len(s) : CharAt(s, i) \in Digits

RECURSIVE DecValue(_)
DecValue(s) ==
    IF Len(s) = 0 THEN 0
    ELSE DecValue(SubSeq(s, 1, Len(s) - 1)) * 10 + DigitVal(CharAt(s, Len(s)))

Pow10(n) == CASE n = 0 -> 1 [] n = 1 -> 10 [] n = 2 -> 100 [] n = 3 -> 1000

ParseFail == [ok |-> FALSE, v |-> 0]

\* strconv.ParseFloat(s, 64) on plain decimals of at most three places:
\* ok is FALSE on a syntax error, v is the value in thousandths
ParseDecimal(s) ==
    LET dots == {i \in 1..Len(s) : CharAt(s, i) = "."} IN
    IF Len(s) = 0 THEN ParseFail
    ELSE IF dots = {} THEN
        IF IsDigits(s) THEN [ok |-> TRUE, v |-> DecValue(s) * 1000] ELSE ParseFail
    ELSE IF Cardinality(dots) > 1 THEN ParseFail
    ELSE LET d  == CHOOSE i \in dots : TRUE
             ip == SubSeq(s, 1, d - 1)
             fp == SubSeq(s, d + 1, Len(s))
         IN IF \/ ~IsDigits(ip) \/ ~IsDigits(fp)
               \/ Len(ip) + Len(fp) = 0
               \/ Len(fp) > 3
            THEN ParseFail
            ELSE [ok |-> TRUE,
                  v  |-> DecValue(ip) * 1000 + DecValue(fp) * Pow10(3 - Len(fp))]

\* ParseDecimal of the amountUsd strings of the model, evaluated once
ParsedUsd ==
    [s \in UNION {ScanUsd[i] : i \in AirdropIDs} \cup DecisionUsd |-> ParseDecimal(s)]

\* strconv.ParseFloat(s, 64)
ParseFloat(s) == IF s \in DOMAIN ParsedUsd THEN ParsedUsd[s] ELSE ParseDecimal(s)

\* strconv.ParseUint(s, 10, 64): digits only (values stay far below 2^64)
ParseUint(s) ==
    IF Len(s) > 0 /\ IsDigits(s) THEN [ok |-> TRUE, v |-> DecValue(s)]
    ELSE ParseFail

(***************************************************************************)
(* Data.                                                                   *)
(***************************************************************************)
\* ClaimedAt of models.AirdropNode: null or a timestamp
Nil == "nil"
ClaimedAtValues == {Nil, "2025-05-01T00:00:00Z"}

\* absent map entry / nil *TokenPriceInfo
NoInfo == [present |-> FALSE]

\* models.AirdropNode, the fields the orchestration reads
AirdropNode(id, usd, lpt, claimedAt) ==
    [ID |-> id, AmountUsd |-> usd, AmountLpt |-> lpt, ClaimedAt |-> claimedAt]

\* TokenPriceInfo
TokenPriceInfo(price, changed, first) ==
    [present |-> TRUE, LastPrice |-> price, LastChanged |-> changed, FirstObserved |-> first]

(***************************************************************************)
(* DecisionMaker.                                                          *)
(***************************************************************************)
ShouldClaim_GtThreshold(airdrop, priceInfo, t, threshold) ==
    IF ~priceInfo.present THEN FALSE
    ELSE LET usd == ParseFloat(airdrop.AmountUsd) IN
         IF ~usd.ok THEN FALSE
         ELSE IF usd.v > threshold THEN TRUE
         ELSE IF usd.v > StabilityFloor
              THEN (t - priceInfo.LastChanged) > TenMinutes
                   /\ (t - priceInfo.FirstObserved) > TenMinutes
              ELSE FALSE

ShouldClaim_GeTenMinutes(airdrop, priceInfo, t, threshold) ==
    IF ~priceInfo.present THEN FALSE
    ELSE LET usd == ParseFloat(airdrop.AmountUsd) IN
         IF ~usd.ok THEN FALSE
         ELSE IF usd.v >= threshold THEN TRUE
         ELSE IF usd.v > StabilityFloor
              THEN (t - priceInfo.LastChanged) >= TenMinutes
                   /\ (t - priceInfo.FirstObserved) >= TenMinutes
              ELSE FALSE

ShouldClaim_NoNilCheck(airdrop, priceInfo, t, threshold) ==
    LET usd == ParseFloat(airdrop.AmountUsd) IN
    IF ~usd.ok THEN FALSE
    ELSE IF usd.v >= threshold THEN TRUE
    ELSE IF priceInfo.present /\ usd.v > StabilityFloor
         THEN (t - priceInfo.LastChanged) > TenMinutes
              /\ (t - priceInfo.FirstObserved) > TenMinutes
         ELSE FALSE

\* DecisionMaker.ShouldClaim; t is the clock read by time.Since
ShouldClaim(airdrop, priceInfo, t, threshold) ==
    IF ~priceInfo.present THEN FALSE
    ELSE LET usd == ParseFloat(airdrop.AmountUsd) IN
         IF ~usd.ok THEN FALSE
         ELSE IF usd.v >= threshold THEN TRUE
         ELSE IF usd.v > StabilityFloor
              THEN (t - priceInfo.LastChanged) > TenMinutes
                   /\ (t - priceInfo.FirstObserved) > TenMinutes
              ELSE FALSE

ShouldSellDirectly_Strict(airdrop, priceInfo, t) ==
    IF ~priceInfo.present \/ airdrop.ClaimedAt = Nil THEN FALSE
    ELSE LET usd == ParseFloat(airdrop.AmountUsd) IN
         IF ~usd.ok THEN FALSE
         ELSE IF usd.v >= SellFloor
              THEN (t - priceInfo.LastChanged) > TenMinutes
                   /\ (t - priceInfo.FirstObserved) > TenMinutes
              ELSE FALSE

\* DecisionMaker.ShouldSellDirectly
ShouldSellDirectly(airdrop, priceInfo, t) ==
    IF ~priceInfo.present \/ airdrop.ClaimedAt = Nil THEN FALSE
    ELSE LET usd == ParseFloat(airdrop.AmountUsd) IN
         IF ~usd.ok THEN FALSE
         ELSE IF usd.v >= SellFloor
              THEN (t - priceInfo.LastChanged) >= TenMinutes
                   /\ (t - priceInfo.FirstObserved) >= TenMinutes
              ELSE FALSE

(***************************************************************************)
(* State.                                                                  *)
(***************************************************************************)
VARIABLES
    pc,                 \* position of the polling task in Start/processAirdrops
    now,                \* the clock, in ticks
    keySet,             \* config.WalletPrivateKey != "" (private-key authentication)
    store,              \* inMemoryAirdropStore.airdrops: id -> AirdropNode
    tokenPriceHistory,  \* PriceTracker.tokenPriceHistory: id -> TokenPriceInfo
    claimedAirdrops,    \* Service.claimedAirdrops, the ids mapped to true
    lastTokenRefresh,   \* Service.lastTokenRefresh, Zero or a tick
    filteredAirdrops,   \* processAirdrops: the list processAndFilterAirdrops returned
    idx,                \* processAirdrops: position of the range loop, 1-based
    claimId,            \* processAirdrops: airdrop.ID of the iteration that claims
    claimErr,           \* processAirdrops: err of the latest ClaimAirdropByID call
    claimSite,          \* history: the return statement that call left through
    sellTasks,          \* ids with a direct-sell goroutine in flight
    cycleAttempts,      \* history: ids handed to ClaimAirdropByID in this cycle, in order
    swapAttempted,      \* history: ids a swap was attempted for in this cycle
    soldNotified,       \* history: ids a "sold" notification was sent for in this cycle
    txSubmitted,        \* history: ids a claim transaction was sent for in this cycle
    txConfirmed,        \* history: ids whose claim transaction landed on chain in this cycle
    claimNotified,      \* history: ids a "claimed" notification was sent for in this cycle
    scanErr,            \* processAirdrops: err of ScanAirdrops in this cycle
    slept,              \* history: the sleeps of this cycle, in seconds, in order
    refreshOutcome,     \* history: how refreshAuthToken left in this cycle, "none" if not called
    clientRefresh,      \* history: the refresh executeGraphQLRequest made in the scan just run, "none" if none
    dAirdrop,           \* decision harness: the airdrop handed to the DecisionMaker
    dPriceInfo,         \* decision harness: the price observation, or NoInfo
    dNow,               \* decision harness: the clock at the evaluation
    dThreshold,         \* decision harness: config.MinimumUsdThreshold
    dEvaluated,         \* decision harness: which functions have been applied
    dClaim,             \* decision harness: result of ShouldClaim
    dSell,              \* decision harness: result of ShouldSellDirectly
    sAmountLpt,         \* SellToken: airdrop.AmountLpt
    sKey,               \* SellToken: config.WalletPrivateKey ("", "bad" or "ok")
    attempt,            \* SwapTokenForSolWithRetries: the loop variable
    useSharedAccounts,  \* SwapTokenForSolWithRetries: the flag of the same name
    lastErr,            \* SwapTokenForSolWithRetries: lastErr
    sellErr,            \* SellToken: the error it returned
    attemptsMade,       \* history: loop bodies entered by this call
    sellSent,           \* history: swap transactions this call submitted
    lastOption,         \* history: option of the latest swap-transaction request
    unsupportedSeen,    \* history: a request reported shared accounts unsupported
    cancelled,          \* main: cancel() has been called, ctx.Done() is closed
    saved,              \* store harness: the airdrops handed to SaveAirdrop, in order
    sale,               \* SellToken: how the sale was settled and what handleSuccessfulSale put out
    profit              \* claimer, auto-sell: the fees and earnings read from the chain, the net profit

effectVars == <<txSubmitted, txConfirmed, claimNotified>>

serviceVars == <<pc, now, keySet, store, tokenPriceHistory, claimedAirdrops,
                 lastTokenRefresh, filteredAirdrops, idx, claimId, claimErr, claimSite, sellTasks,
                 cycleAttempts, swapAttempted, soldNotified, txSubmitted, txConfirmed,
                 claimNotified, scanErr, slept, refreshOutcome, clientRefresh>>

decisionVars == <<dAirdrop, dPriceInfo, dNow, dThreshold, dEvaluated, dClaim, dSell>>

sellVars == <<sAmountLpt, sKey, attempt, useSharedAccounts, lastErr, sellErr,
              attemptsMade, sellSent, lastOption, unsupportedSeen>>

harnessVars == <<cancelled, saved, sale, profit>>

vars == <<pc, now, keySet, store, tokenPriceHistory, claimedAirdrops,
          lastTokenRefresh, filteredAirdrops, idx, claimId, claimErr, claimSite, sellTasks,
          cycleAttempts, swapAttempted, soldNotified, txSubmitted, txConfirmed,
          claimNotified, scanErr, slept, refreshOutcome, clientRefresh,
          dAirdrop, dPriceInfo, dNow, dThreshold, dEvaluated, dClaim, dSell,
          sAmountLpt, sKey, attempt, useSharedAccounts, lastErr, sellErr,
          attemptsMade, sellSent, lastOption, unsupportedSeen, cancelled, saved,
          sale, profit>>

\* nil error
NoErr == ""

\* no airdrop id
NoId == ""

\* time.Time{} of lastTokenRefresh
Zero == -1

Range(seq) == {seq[i] : i \in 1..Len(seq)}

(***************************************************************************)
(* Error vocabulary of the orchestrator.                                   *)
(***************************************************************************)
\* the authentication test of processAirdrops, on scan and claim errors
IsAuthError(err) ==
    \E lower \in {ToLower(e) : e \in {err}} :
      \/ Contains(lower, "unauthorized")
      \/ Contains(lower, "auth")
      \/ Contains(lower, "token")

\* the network test of handleScanError (case-sensitive)
IsNetworkError(err) ==
    \E e \in {err} :
      \/ Contains(e, "unexpected EOF")
      \/ Contains(e, "connection refused")
      \/ Contains(e, "i/o timeout")

\* permanentErrors of IsPermanentClaimError
PermanentErrors ==
    {"airdrop is already claimed", "invalid token amount",
     "failed to parse token amount", "failed to find merkle distributor"}

\* IsPermanentClaimError
IsPermanentClaimError(err) ==
    \E errorMsg \in {ToLower(e) : e \in {err}} :
      \E msg \in PermanentErrors : Contains(errorMsg, ToLower(msg))

(***************************************************************************)
(* AirdropStore.                                                           *)
(***************************************************************************)
\* SaveAirdrop that keeps the record an id already has
SaveAirdrop_KeepFirst(st, airdrop) ==
    IF airdrop.ID \in DOMAIN st THEN st
    ELSE [i \in DOMAIN st \cup {airdrop.ID} |-> IF i = airdrop.ID THEN airdrop ELSE st[i]]

\* inMemoryAirdropStore.SaveAirdrop
SaveAirdrop(st, airdrop) ==
    [i \in DOMAIN st \cup {airdrop.ID} |-> IF i = airdrop.ID THEN airdrop ELSE st[i]]

\* inMemoryAirdropStore.GetAllAirdrops, the records it returns (in the
\* order of a map iteration)
GetAllAirdrops(st) == {st[i] : i \in DOMAIN st}

RECURSIVE SaveAll(_, _)
SaveAll(st, airdrops) ==
    IF airdrops = <<>> THEN st
    ELSE SaveAll(SaveAirdrop(st, Head(airdrops)), Tail(airdrops))

\* AirdropScanner.ScanAirdrops, the list it returns: the airdrops whose
\* amountUsd parses and reaches usdThreshold, in the order of the response
RECURSIVE ValuableAirdrops(_, _)
ValuableAirdrops(airdrops, usdThreshold) ==
    IF airdrops = <<>> THEN <<>>
    ELSE LET a == Head(airdrops)
             usd == ParseFloat(a.AmountUsd)
             rest == ValuableAirdrops(Tail(airdrops), usdThreshold)
         IN IF usd.ok /\ usd.v >= usdThreshold THEN <<a>> \o rest ELSE rest

(***************************************************************************)
(* PriceTracker.                                                           *)
(***************************************************************************)
\* PriceTracker.GetTokenPriceInfo
GetTokenPriceInfo(history, id) ==
    IF id \in DOMAIN history THEN history[id] ELSE NoInfo

\* UpdatePriceData that restarts FirstObserved when the price changes
UpdatePriceData_ResetFirst(history, airdrop, t) ==
    LET usd == ParseFloat(airdrop.AmountUsd)
        put(info) == [i \in DOMAIN history \cup {airdrop.ID} |->
                          IF i = airdrop.ID THEN info ELSE history[i]]
    IN IF ~usd.ok THEN history
       ELSE IF airdrop.ID \notin DOMAIN history
            THEN put(TokenPriceInfo(usd.v, t, t))
       ELSE IF history[airdrop.ID].LastPrice # usd.v
            THEN put(TokenPriceInfo(usd.v, t, t))
       ELSE history

\* UpdatePriceData that moves LastChanged on every call
UpdatePriceData_Touch(history, airdrop, t) ==
    LET usd == ParseFloat(airdrop.AmountUsd)
        put(info) == [i \in DOMAIN history \cup {airdrop.ID} |->
                          IF i = airdrop.ID THEN info ELSE history[i]]
    IN IF ~usd.ok THEN history
       ELSE IF airdrop.ID \notin DOMAIN history
            THEN put(TokenPriceInfo(usd.v, t, t))
       ELSE put(TokenPriceInfo(usd.v, t, history[airdrop.ID].FirstObserved))

\* UpdatePriceData that keeps LastChanged when the price changes
UpdatePriceData_KeepChanged(history, airdrop, t) ==
    LET usd == ParseFloat(airdrop.AmountUsd)
        put(info) == [i \in DOMAIN history \cup {airdrop.ID} |->
                          IF i = airdrop.ID THEN info ELSE history[i]]
    IN IF ~usd.ok THEN history
       ELSE IF airdrop.ID \notin DOMAIN history
            THEN put(TokenPriceInfo(usd.v, t, t))
       ELSE IF history[airdrop.ID].LastPrice # usd.v
            THEN put(TokenPriceInfo(usd.v, history[airdrop.ID].LastChanged,
                                    history[airdrop.ID].FirstObserved))
       ELSE history

\* PriceTracker.UpdatePriceData
UpdatePriceData(history, airdrop, t) ==
    LET usd == ParseFloat(airdrop.AmountUsd)
        put(info) == [i \in DOMAIN history \cup {airdrop.ID} |->
                          IF i = airdrop.ID THEN info ELSE history[i]]
    IN IF ~usd.ok THEN history
       ELSE IF airdrop.ID \notin DOMAIN history
            THEN put(TokenPriceInfo(usd.v, t, t))
       ELSE IF history[airdrop.ID].LastPrice # usd.v
            THEN put(TokenPriceInfo(usd.v, t, history[airdrop.ID].FirstObserved))
       ELSE history

(***************************************************************************)
(* Service: dedup set, token refresh, filter.                              *)
(***************************************************************************)
IsAlreadyClaimed_IgnoreSet(claimed, airdrop) ==
    airdrop.ClaimedAt # Nil

\* Service.isAlreadyClaimed, its result
IsAlreadyClaimed(claimed, airdrop) ==
    airdrop.ID \in claimed \/ airdrop.ClaimedAt # Nil

ClaimedAfterCheck_Forget(claimed, airdrop) ==
    IF airdrop.ClaimedAt # Nil THEN claimed \cup {airdrop.ID}
    ELSE claimed \ {airdrop.ID}

\* Service.isAlreadyClaimed, the claimedAirdrops it leaves
ClaimedAfterCheck(claimed, airdrop) ==
    IF airdrop.ID \in claimed THEN claimed
    ELSE IF airdrop.ClaimedAt # Nil THEN claimed \cup {airdrop.ID}
    ELSE claimed

\* Service.refreshAuthToken, the branch it leaves through; refreshOk is
\* whether config.RefreshAuthToken returns nil.  NewConfigWithPrivateKey
\* sets the TokenManager together with the private key.
RefreshOutcome(last, key, t, refreshOk) ==
    IF ~key THEN "nokey"
    ELSE IF last # Zero /\ t - last < ThirtyMinutes THEN "throttled"
    ELSE IF refreshOk THEN "ok"
    ELSE "failed"

\* Service.refreshAuthToken, the lastTokenRefresh it leaves
RefreshAuthToken(last, key, t, refreshOk) ==
    IF RefreshOutcome(last, key, t, refreshOk) = "ok" THEN t ELSE last

\* Service.handleScanError, the sleep it makes
HandleScanError(err) ==
    IF IsNetworkError(err) THEN NetworkBackoff ELSE ScanErrorBackoff

\* Service.handleStableTokenSale: the ids (none or airdrop.ID) a sell
\* goroutine is started for
HandleStableTokenSale(claimed, airdrop, priceInfo, t) ==
    IF airdrop.ClaimedAt = Nil \/ ~priceInfo.present THEN {}
    ELSE IF ShouldSellDirectly(airdrop, priceInfo, t) /\ airdrop.ID \notin claimed
         THEN {airdrop.ID}
    ELSE {}

\* the goroutine of handleStableTokenSale: claimedAirdrops after SellToken
\* returned err
SellTaskResult(claimed, id, err) ==
    IF err = NoErr THEN claimed \cup {id} ELSE claimed

\* processAndFilterAirdrops that asks the DecisionMaker before it records
\* the observation
RECURSIVE ProcessAndFilterAirdrops_DecideFirst(_, _, _, _)
ProcessAndFilterAirdrops_DecideFirst(airdrops, acc, t, threshold) ==
    IF airdrops = <<>> THEN acc
    ELSE LET a == Head(airdrops) IN
         LET claimed == ClaimedAfterCheck(acc.claimed, a) IN
         IF IsAlreadyClaimed(acc.claimed, a)
         THEN ProcessAndFilterAirdrops_DecideFirst(Tail(airdrops),
                  [acc EXCEPT !.claimed = claimed], t, threshold)
         ELSE LET priceInfo == GetTokenPriceInfo(acc.history, a.ID)
                  history == UpdatePriceData(acc.history, a, t)
              IN IF ShouldClaim(a, priceInfo, t, threshold)
                 THEN ProcessAndFilterAirdrops_DecideFirst(Tail(airdrops),
                          [acc EXCEPT !.claimed = claimed,
                                      !.history = history,
                                      !.filtered = Append(@, a)], t, threshold)
                 ELSE ProcessAndFilterAirdrops_DecideFirst(Tail(airdrops),
                          [acc EXCEPT !.claimed = claimed,
                                      !.history = history,
                                      !.sells = @ \cup HandleStableTokenSale(
                                                    claimed, a, priceInfo, t)],
                          t, threshold)

\* Service.processAndFilterAirdrops, from the airdrop at the head of the list
\* on; acc carries claimedAirdrops, the price history, the filtered list and
\* the sell goroutines started
RECURSIVE ProcessAndFilterAirdrops(_, _, _, _)
ProcessAndFilterAirdrops(airdrops, acc, t, threshold) ==
    IF airdrops = <<>> THEN acc
    ELSE LET a == Head(airdrops) IN
         LET claimed == ClaimedAfterCheck(acc.claimed, a) IN
         IF IsAlreadyClaimed(acc.claimed, a)
         THEN ProcessAndFilterAirdrops(Tail(airdrops),
                  [acc EXCEPT !.claimed = claimed], t, threshold)
         ELSE LET history == UpdatePriceData(acc.history, a, t)
                  priceInfo == GetTokenPriceInfo(history, a.ID)
              IN IF ShouldClaim(a, priceInfo, t, threshold)
                 THEN ProcessAndFilterAirdrops(Tail(airdrops),
                          [acc EXCEPT !.claimed = claimed,
                                      !.history = history,
                                      !.filtered = Append(@, a)], t, threshold)
                 ELSE ProcessAndFilterAirdrops(Tail(airdrops),
                          [acc EXCEPT !.claimed = claimed,
                                      !.history = history,
                                      !.sells = @ \cup HandleStableTokenSale(
                                                    claimed, a, priceInfo, t)],
                          t, threshold)

(***************************************************************************)
(* AirdropClaimer.                                                         *)
(***************************************************************************)
\* what the collaborators of one ClaimAirdropByID call do: the RPC node
\* (blockhash, send), the address derivation, the swap service
\* ("dropped": the node accepts the transaction, the chain never lands it)
ClaimEnv == {"sold", "swapfail", "dropped", "blockhash", "merkle", "send", "send401"}

ClaimFailure(site, err) ==
    [site |-> site, err |-> err, tx |-> "", sent |-> FALSE, confirmed |-> FALSE,
     notified |-> FALSE, swap |-> FALSE, sold |-> FALSE]

\* ClaimAirdropByIDWithConfig from the wallet key on, for the stored
\* record airdrop
ClaimStoredAirdrop(airdrop, key, env) ==
    IF ~key
    THEN ClaimFailure("no_key", "wallet private key not configured")
    ELSE IF env = "blockhash"
    THEN ClaimFailure("blockhash", "failed to get blockhash: context deadline exceeded")
    ELSE IF ~ParseUint(airdrop.AmountLpt).ok
    THEN ClaimFailure("parse_amount", "failed to parse token amount: strconv.ParseUint: parsing \""
                      \o airdrop.AmountLpt \o "\": invalid syntax")
    ELSE IF env = "merkle"
    THEN ClaimFailure("merkle", "failed to find merkle distributor pda: failed to find program address")
    ELSE IF env = "send"
    THEN ClaimFailure("send", "failed to send transaction: connection reset by peer")
    ELSE IF env = "send401"
    THEN ClaimFailure("send", "failed to send transaction: 401 Unauthorized")
    ELSE [site |-> "success", err |-> NoErr, tx |-> "sig-" \o airdrop.ID, sent |-> TRUE,
          confirmed |-> (env # "dropped"), notified |-> TRUE, swap |-> TRUE,
          sold |-> (env = "sold")]

ClaimAirdropByID_NoClaimedCheck(st, id, key, env) ==
    IF id \notin DOMAIN st
    THEN ClaimFailure("not_found", "failed to get airdrop: airdrop with ID " \o id \o " not found")
    ELSE ClaimStoredAirdrop(st[id], key, env)

\* AirdropClaimer.ClaimAirdropByID (ClaimAirdropByIDWithConfig under
\* DefaultClaimConfig, AutoSellToSol true): the error and signature it
\* returns, whether it sent the claim transaction, whether that landed on
\* chain, whether it sent the "claimed" notification, whether it attempted
\* the swap, whether it sent the "sold" notification
ClaimAirdropByID(st, id, key, env) ==
    IF id \notin DOMAIN st
    THEN ClaimFailure("not_found", "failed to get airdrop: airdrop with ID " \o id \o " not found")
    ELSE IF st[id].ClaimedAt # Nil
    THEN ClaimFailure("already_claimed", "airdrop " \o id \o " is already claimed")
    ELSE ClaimStoredAirdrop(st[id], key, env)

(***************************************************************************)
(* Service: the claim loop.                                                *)
(***************************************************************************)
HandleClaimResult_MarkAnyError(claimed, id, err) ==
    claimed \cup {id}

HandleClaimResult_IgnorePermanent(claimed, id, err) ==
    IF err # NoErr THEN claimed ELSE claimed \cup {id}

\* Service.handleClaimResult, the claimedAirdrops it leaves
HandleClaimResult(claimed, id, err) ==
    IF err # NoErr
    THEN IF IsPermanentClaimError(err) THEN claimed \cup {id} ELSE claimed
    ELSE claimed \cup {id}

AfterClaim_Continue(i) == [pc |-> "claim", idx |-> i + 1]

\* processAirdrops after handleClaimResult of iteration i: the break leaves
\* the range loop, the function returns
AfterClaim(i) == [pc |-> "wait", idx |-> i]

\* the range loop of processAirdrops from position i: the first position
\* whose airdrop isAlreadyClaimed lets through (Len + 1 when there is none),
\* with the claimedAirdrops the skipped checks leave
RECURSIVE NextUnclaimed(_, _, _)
NextUnclaimed(filtered, i, claimed) ==
    IF i > Len(filtered) THEN [idx |-> i, claimed |-> claimed]
    ELSE IF IsAlreadyClaimed(claimed, filtered[i])
         THEN NextUnclaimed(filtered, i + 1, ClaimedAfterCheck(claimed, filtered[i]))
    ELSE [idx |-> i, claimed |-> ClaimedAfterCheck(claimed, filtered[i])]

(***************************************************************************)
(* The environment of the polling loop.                                    *)
(***************************************************************************)
AirdropVariants ==
    UNION {{AirdropNode(id, usd, ScanLpt[id], c) :
               usd \in ScanUsd[id], c \in ClaimedAtValues} : id \in AirdropIDs}

\* the lists GetPendingAirdrops can return: every id at most once
ScanResponses ==
    UNION {{resp \in [1..n -> AirdropVariants] :
               \A i, j \in 1..n : i # j => resp[i].ID # resp[j].ID} :
           n \in 0..Cardinality(AirdropIDs)}

\* the errors BoopClient.doRequest can return
DoRequestErrors ==
    {"GraphQL authorization error: {}",
     "error executing request: unexpected EOF",
     "unexpected status code: 502, response: Bad Gateway"}

\* BoopClient.isAuthError, the authentication test of the API client
ClientIsAuthError(err) ==
    \E errMsg \in {ToLower(e) : e \in {err}} :
      \/ Contains(errMsg, "unexpected status code: 401")
      \/ Contains(errMsg, "unexpected status code: 403")
      \/ Contains(errMsg, "graphql authorization error")
      \/ Contains(errMsg, "user not authorized")

\* BoopClient.executeGraphQLRequest (both constructors of the configuration
\* set the TokenManager): the error it returns, NoErr with the nodes, and
\* the refresh it made on the way.  first and second are the results of
\* the two doRequest calls, refreshOk whether config.RefreshAuthToken
\* returns nil.
ExecuteGraphQLRequest(first, refreshOk, second) ==
    IF first = NoErr THEN [err |-> NoErr, refresh |-> "none"]
    ELSE IF ~ClientIsAuthError(first) THEN [err |-> first, refresh |-> "none"]
    ELSE IF ~refreshOk
         THEN [err |-> "failed to refresh auth token: privy session expired",
               refresh |-> "failed"]
    ELSE [err |-> second, refresh |-> "ok"]

\* the outcomes of GetPendingAirdrops
FetchOutcomes ==
    {ExecuteGraphQLRequest(first, refreshOk, second) :
        first \in DoRequestErrors \cup {NoErr}, refreshOk \in BOOLEAN,
        second \in DoRequestErrors \cup {NoErr}}

\* the failures of ScanAirdrops: the error it returns and the refresh the
\* client made
ScanErrors ==
    {[err |-> "failed to fetch airdrops: " \o o.err, refresh |-> o.refresh] :
        o \in {f \in FetchOutcomes : f.err # NoErr}}

\* the refreshes the client can have made when ScanAirdrops succeeds
ScanRefreshes == {o.refresh : o \in {f \in FetchOutcomes : f.err = NoErr}}

EmptyMap == [i \in {} |-> NoInfo]

(***************************************************************************)
(* The polling loop: Service.Start and processAirdrops.                    *)
(***************************************************************************)
\* processAirdrops up to the range loop: a scan that succeeds, then
\* processAndFilterAirdrops
ScanAndFilter ==
    /\ pc = "scan"
    /\ \E refresh \in ScanRefreshes : clientRefresh' = refresh
    /\ \E resp \in ScanResponses :
         LET valuable == ValuableAirdrops(resp, ScanThreshold)
             acc == ProcessAndFilterAirdrops(valuable,
                        [claimed |-> claimedAirdrops, history |-> tokenPriceHistory,
                         filtered |-> <<>>, sells |-> {}],
                        now, MinimumUsdThreshold)
         IN /\ store' = SaveAll(store, resp)
            /\ tokenPriceHistory' = acc.history
            /\ claimedAirdrops' = acc.claimed
            /\ filteredAirdrops' = acc.filtered
            /\ sellTasks' = sellTasks \cup acc.sells
    /\ idx' = 1
    /\ pc' = "claim"
    /\ UNCHANGED <<now, keySet, lastTokenRefresh, claimId, claimErr, claimSite,
                   cycleAttempts, swapAttempted, soldNotified, scanErr, slept, refreshOutcome>>
    /\ UNCHANGED effectVars
    /\ UNCHANGED decisionVars
    /\ UNCHANGED sellVars
    /\ UNCHANGED harnessVars

\* processAirdrops when the scan fails: refreshAuthToken on an
\* authentication error, handleScanError (with its sleep), return
ScanFail ==
    /\ pc = "scan"
    /\ \E failure \in ScanErrors, refreshOk \in BOOLEAN :
         LET err == failure.err IN
         /\ scanErr' = err
         /\ clientRefresh' = failure.refresh
         /\ lastTokenRefresh' = IF IsAuthError(err)
                                THEN RefreshAuthToken(lastTokenRefresh, keySet, now, refreshOk)
                                ELSE lastTokenRefresh
         /\ refreshOutcome' = IF IsAuthError(err)
                              THEN RefreshOutcome(lastTokenRefresh, keySet, now, refreshOk)
                              ELSE refreshOutcome
         /\ slept' = Append(slept, HandleScanError(err))
    /\ pc' = "wait"
    /\ UNCHANGED <<now, keySet, store, tokenPriceHistory, claimedAirdrops,
                   filteredAirdrops, idx, claimId, claimErr, claimSite, sellTasks,
                   cycleAttempts, swapAttempted, soldNotified>>
    /\ UNCHANGED effectVars
    /\ UNCHANGED decisionVars
    /\ UNCHANGED sellVars
    /\ UNCHANGED harnessVars

\* the range loop of processAirdrops up to the first ClaimAirdropByID call
ClaimAttempt ==
    /\ pc = "claim"
    /\ clientRefresh' = "none"
    /\ LET nx == NextUnclaimed(filteredAirdrops, idx, claimedAirdrops) IN
         /\ idx' = nx.idx
         /\ claimedAirdrops' = nx.claimed
         /\ IF nx.idx > Len(filteredAirdrops)
            THEN /\ pc' = "wait"
                 /\ UNCHANGED <<claimId, claimErr, claimSite, cycleAttempts,
                                swapAttempted, soldNotified>>
                 /\ UNCHANGED effectVars
            ELSE \E env \in ClaimEnv :
                   LET id == filteredAirdrops[nx.idx].ID
                       r == ClaimAirdropByID(store, id, keySet, env)
                   IN /\ claimId' = id
                      /\ claimErr' = r.err
                      /\ claimSite' = r.site
                      /\ cycleAttempts' = Append(cycleAttempts, id)
                      /\ txSubmitted' = IF r.sent THEN txSubmitted \cup {id}
                                        ELSE txSubmitted
                      /\ txConfirmed' = IF r.confirmed THEN txConfirmed \cup {id}
                                        ELSE txConfirmed
                      /\ claimNotified' = IF r.notified THEN claimNotified \cup {id}
                                          ELSE claimNotified
                      /\ swapAttempted' = IF r.swap THEN swapAttempted \cup {id}
                                          ELSE swapAttempted
                      /\ soldNotified' = IF r.sold THEN soldNotified \cup {id}
                                         ELSE soldNotified
                      /\ pc' = IF r.err # NoErr /\ IsAuthError(r.err)
                               THEN "retry" ELSE "result"
    /\ UNCHANGED <<now, keySet, store, tokenPriceHistory, lastTokenRefresh,
                   filteredAirdrops, sellTasks, scanErr, slept,
                   refreshOutcome>>
    /\ UNCHANGED decisionVars
    /\ UNCHANGED sellVars
    /\ UNCHANGED harnessVars

\* the authentication branch of the loop body: refreshAuthToken, then the
\* second ClaimAirdropByID call
RetryClaim ==
    /\ pc = "retry"
    /\ \E refreshOk \in BOOLEAN, env \in ClaimEnv :
         LET r == ClaimAirdropByID(store, claimId, keySet, env) IN
           /\ lastTokenRefresh' = RefreshAuthToken(lastTokenRefresh, keySet, now, refreshOk)
           /\ refreshOutcome' = RefreshOutcome(lastTokenRefresh, keySet, now, refreshOk)
           /\ claimErr' = r.err
           /\ claimSite' = r.site
           /\ cycleAttempts' = Append(cycleAttempts, claimId)
           /\ txSubmitted' = IF r.sent THEN txSubmitted \cup {claimId}
                             ELSE txSubmitted
           /\ txConfirmed' = IF r.confirmed THEN txConfirmed \cup {claimId}
                             ELSE txConfirmed
           /\ claimNotified' = IF r.notified THEN claimNotified \cup {claimId}
                               ELSE claimNotified
           /\ swapAttempted' = IF r.swap THEN swapAttempted \cup {claimId}
                               ELSE swapAttempted
           /\ soldNotified' = IF r.sold THEN soldNotified \cup {claimId}
                              ELSE soldNotified
    /\ pc' = "result"
    /\ UNCHANGED <<now, keySet, store, tokenPriceHistory, claimedAirdrops,
                   filteredAirdrops, idx, claimId, sellTasks, scanErr,
                   slept, clientRefresh>>
    /\ UNCHANGED decisionVars
    /\ UNCHANGED sellVars
    /\ UNCHANGED harnessVars

\* handleClaimResult, the 60 second sleep and the break
HandleResult ==
    /\ pc = "result"
    /\ claimedAirdrops' = HandleClaimResult(claimedAirdrops, claimId, claimErr)
    /\ slept' = Append(slept, ClaimPause)
    /\ pc' = AfterClaim(idx).pc
    /\ idx' = AfterClaim(idx).idx
    /\ UNCHANGED <<now, keySet, store, tokenPriceHistory, lastTokenRefresh,
                   filteredAirdrops, claimId, claimErr, claimSite, sellTasks,
                   cycleAttempts, swapAttempted, soldNotified, scanErr,
                   refreshOutcome,
                   clientRefresh>>
    /\ UNCHANGED effectVars
    /\ UNCHANGED decisionVars
    /\ UNCHANGED sellVars
    /\ UNCHANGED harnessVars

\* Start: processAirdrops has returned (its locals are gone) and the loop
\* sleeps CheckInterval
Wait ==
    /\ pc = "wait"
    /\ slept' = Append(slept, CheckInterval)
    /\ pc' = "loop"
    /\ filteredAirdrops' = <<>>
    /\ idx' = 1
    /\ claimId' = NoId
    /\ claimErr' = NoErr
    /\ claimSite' = "none"
    /\ cycleAttempts' = <<>>
    /\ swapAttempted' = {}
    /\ soldNotified' = {}
    /\ txSubmitted' = {}
    /\ txConfirmed' = {}
    /\ claimNotified' = {}
    /\ refreshOutcome' = "none"
    /\ clientRefresh' = "none"
    /\ UNCHANGED <<now, keySet, store, tokenPriceHistory, claimedAirdrops,
                   lastTokenRefresh, sellTasks, scanErr>>
    /\ UNCHANGED decisionVars
    /\ UNCHANGED sellVars
    /\ UNCHANGED harnessVars

SelectDone_Never(done) == FALSE

\* Start: the select at the head of the for loop takes the ctx.Done()
\* case exactly when the channel is closed (the default case otherwise)
SelectDone(done) == done

\* Start: the for loop comes round and takes the default branch of the
\* select; what the cycle before it slept is history
NextCycle ==
    /\ pc = "loop"
    /\ ~SelectDone(cancelled)
    /\ pc' = "scan"
    /\ scanErr' = NoErr
    /\ slept' = <<>>
    /\ UNCHANGED <<now, keySet, store, tokenPriceHistory, claimedAirdrops,
                   lastTokenRefresh, filteredAirdrops, idx, claimId, claimErr,
                   claimSite, sellTasks, cycleAttempts, swapAttempted, soldNotified,
                   refreshOutcome,
                   clientRefresh>>
    /\ UNCHANGED effectVars
    /\ UNCHANGED decisionVars
    /\ UNCHANGED sellVars
    /\ UNCHANGED harnessVars

\* ten minutes pass while the loop sleeps
Tick ==
    /\ pc = "scan"
    /\ now < MaxTime
    /\ now' = now + 1
    /\ UNCHANGED <<pc, keySet, store, tokenPriceHistory, claimedAirdrops,
                   lastTokenRefresh, filteredAirdrops, idx, claimId, claimErr,
                   claimSite, sellTasks, cycleAttempts,
                   swapAttempted, soldNotified, scanErr, slept,
                   refreshOutcome,
                   clientRefresh>>
    /\ UNCHANGED effectVars
    /\ UNCHANGED decisionVars
    /\ UNCHANGED sellVars
    /\ UNCHANGED harnessVars

\* Start: the for loop comes round, takes the ctx.Done() case and returns
Stop ==
    /\ pc = "loop"
    /\ SelectDone(cancelled)
    /\ pc' = "stopped"
    /\ UNCHANGED <<now, keySet, store, tokenPriceHistory, claimedAirdrops,
                   lastTokenRefresh, filteredAirdrops, idx, claimId, claimErr,
                   claimSite, sellTasks, cycleAttempts, swapAttempted, soldNotified,
                   scanErr, slept, refreshOutcome, clientRefresh>>
    /\ UNCHANGED effectVars
    /\ UNCHANGED decisionVars
    /\ UNCHANGED sellVars
    /\ UNCHANGED harnessVars

\* main: a termination signal arrives and main calls cancel(), wherever
\* the polling task is
Cancel ==
    /\ pc \in {"scan", "claim", "retry", "result", "wait", "loop"}
    /\ ~cancelled
    /\ cancelled' = TRUE
    /\ UNCHANGED serviceVars
    /\ UNCHANGED decisionVars
    /\ UNCHANGED sellVars
    /\ UNCHANGED <<saved, sale, profit>>

DecisionIdle ==
    /\ dAirdrop = AirdropNode("a1", "0", "0", Nil)
    /\ dPriceInfo = NoInfo
    /\ dNow = 0
    /\ dThreshold = MinimumUsdThreshold
    /\ dEvaluated = {}
    /\ dClaim = FALSE
    /\ dSell = FALSE

\* no sale settled
NoSale == [source |-> "none"]

\* no auto-sell profit computed
NoProfit == [done |-> FALSE]

HarnessIdle ==
    /\ cancelled = FALSE
    /\ saved = <<>>
    /\ sale = NoSale
    /\ profit = NoProfit

SellIdle ==
    /\ sAmountLpt = "0"
    /\ sKey = "ok"
    /\ attempt = 1
    /\ useSharedAccounts = TRUE
    /\ lastErr = NoErr
    /\ sellErr = NoErr
    /\ attemptsMade = 0
    /\ sellSent = 0
    /\ lastOption = "none"
    /\ unsupportedSeen = FALSE

\* NewService (empty maps, zero lastTokenRefresh) and the locals of a
\* processAirdrops call that has not scanned yet
ServiceInit ==
    /\ now = 0
    /\ tokenPriceHistory = EmptyMap
    /\ claimedAirdrops = {}
    /\ lastTokenRefresh = Zero
    /\ idx = 1
    /\ claimId = NoId
    /\ claimErr = NoErr
    /\ claimSite = "none"
    /\ sellTasks = {}
    /\ cycleAttempts = <<>>
    /\ swapAttempted = {}
    /\ soldNotified = {}
    /\ txSubmitted = {}
    /\ txConfirmed = {}
    /\ claimNotified = {}
    /\ scanErr = NoErr
    /\ slept = <<>>
    /\ refreshOutcome = "none"
    /\ clientRefresh = "none"

\* main of cmd/auto_claim: an empty store, then Service.Start
Init ==
    /\ pc = "scan"
    /\ keySet \in BOOLEAN
    /\ store = EmptyMap
    /\ filteredAirdrops = <<>>
    /\ ServiceInit
    /\ DecisionIdle
    /\ SellIdle
    /\ HarnessIdle

Next ==
    \/ ScanAndFilter
    \/ ScanFail
    \/ ClaimAttempt
    \/ RetryClaim
    \/ HandleResult
    \/ Wait
    \/ NextCycle
    \/ Tick

Spec == Init /\ [][Next]_vars

(***************************************************************************)
(* The polling loop and the termination signal, within one ten-minute      *)
(* step of the clock.  The polling task is a goroutine that keeps being    *)
(* scheduled; the signal may never come.                                   *)
(***************************************************************************)
StartStep ==
    \/ ScanAndFilter
    \/ ScanFail
    \/ ClaimAttempt
    \/ RetryClaim
    \/ HandleResult
    \/ Wait
    \/ NextCycle
    \/ Stop

NextCancel ==
    \/ StartStep
    \/ Cancel

SpecCancel == Init /\ [][NextCancel]_vars /\ WF_vars(StartStep)

(***************************************************************************)
(* The DecisionMaker on its own: one airdrop, one observation (or none),   *)
(* one clock reading and one threshold, then the two decision functions.   *)
(***************************************************************************)
\* the observations a PriceTracker can hold at clock t for an amount it
\* parsed to price: first observed, then last changed, both in the past
Observations(price, t) ==
    {TokenPriceInfo(price, p[1], p[2]) :
        p \in {q \in (0..t) \X (0..t) : q[2] <= q[1]}}

InitDecision ==
    /\ pc = "off"
    /\ keySet = TRUE
    /\ store = EmptyMap
    /\ filteredAirdrops = <<>>
    /\ ServiceInit
    /\ dAirdrop \in {AirdropNode("a1", usd, "1000", c) :
                        usd \in DecisionUsd, c \in ClaimedAtValues}
    /\ dNow \in 0..MaxTime
    /\ dThreshold \in DecisionThresholds
    /\ dPriceInfo \in {NoInfo} \cup Observations(ParseFloat(dAirdrop.AmountUsd).v, dNow)
    /\ dEvaluated = {}
    /\ dClaim = FALSE
    /\ dSell = FALSE
    /\ SellIdle
    /\ HarnessIdle

EvalShouldClaim ==
    /\ pc = "off"
    /\ "claim" \notin dEvaluated
    /\ dClaim' = ShouldClaim(dAirdrop, dPriceInfo, dNow, dThreshold)
    /\ dEvaluated' = dEvaluated \cup {"claim"}
    /\ UNCHANGED <<dAirdrop, dPriceInfo, dNow, dThreshold, dSell>>
    /\ UNCHANGED serviceVars
    /\ UNCHANGED sellVars
    /\ UNCHANGED harnessVars

EvalShouldSellDirectly ==
    /\ pc = "off"
    /\ "sell" \notin dEvaluated
    /\ dSell' = ShouldSellDirectly(dAirdrop, dPriceInfo, dNow)
    /\ dEvaluated' = dEvaluated \cup {"sell"}
    /\ UNCHANGED <<dAirdrop, dPriceInfo, dNow, dThreshold, dClaim>>
    /\ UNCHANGED serviceVars
    /\ UNCHANGED sellVars
    /\ UNCHANGED harnessVars

NextDecision ==
    \/ EvalShouldClaim
    \/ EvalShouldSellDirectly

SpecDecision == InitDecision /\ [][NextDecision]_vars

(***************************************************************************)
(* The Claimer under its caller: any store, ClaimAirdropByID for any       *)
(* airdrop the caller holds, and the orchestrator's handling of the result *)
(* (one pass of the loop body of processAirdrops).                         *)
(***************************************************************************)
\* the stores scans can leave behind
Stores ==
    UNION {{st \in [ids -> AirdropVariants] : \A i \in ids : st[i].ID = i} :
           ids \in SUBSET AirdropIDs}

InitClaimer ==
    /\ pc = "claim"
    /\ keySet \in BOOLEAN
    /\ store \in Stores
    /\ filteredAirdrops \in {<<a>> : a \in {v \in AirdropVariants : v.ClaimedAt = Nil}}
    /\ ServiceInit
    /\ DecisionIdle
    /\ SellIdle
    /\ HarnessIdle

NextClaimer ==
    \/ ClaimAttempt
    \/ RetryClaim
    \/ HandleResult

SpecClaimer == InitClaimer /\ [][NextClaimer]_vars

(***************************************************************************)
(* TokenSeller.SellToken on its own: one amount, one wallet key, then the  *)
(* retry loop of SwapService.SwapTokenForSolWithRetries against a swap API *)
(* and an RPC node that may fail every step.                               *)
(***************************************************************************)
\* how one pass of the loop body can go: the step that fails, or "ok"
SwapOutcomes ==
    {"quote", "unsupported", "build", "blockhash", "decode", "sign", "send", "ok"}

\* the error GetSwapTransactionWithOptions returns
BuildError(outcome) ==
    IF outcome = "unsupported"
    THEN "Jupiter Swap API returned non-OK status: 400 - Simple AMMs are not supported with shared accounts"
    ELSE "Jupiter Swap API returned non-OK status: 500 - "

\* lastErr as the failing step of the loop body sets it
AttemptError(outcome) ==
    CASE outcome = "quote" -> "failed to get swap quote: Jupiter Quote API returned non-OK status: 429 - "
      [] outcome \in {"unsupported", "build"} ->
             "failed to get swap transaction: " \o BuildError(outcome)
      [] outcome = "blockhash" -> "failed to get latest blockhash: EOF"
      [] outcome = "decode" -> "failed to decode transaction: EOF"
      [] outcome = "sign" -> "failed to sign transaction: signer key not found"
      [] outcome = "send" -> "failed to send transaction: EOF"
      [] OTHER -> NoErr

SharedAccountsAfter_Reset(shared, outcome) ==
    ~Contains(BuildError(outcome), "Simple AMMs are not supported with shared accounts")

\* useSharedAccounts after a swap-transaction request that failed
SharedAccountsAfter(shared, outcome) ==
    IF Contains(BuildError(outcome), "Simple AMMs are not supported with shared accounts")
    THEN FALSE
    ELSE shared

RetriesLeft_Unbounded(n) == n <= MaxRetries + 1

\* the condition of the for loop
RetriesLeft(n) == n <= MaxRetries

\* the error GetWallet returns for config.WalletPrivateKey
GetWallet(key) ==
    IF key = "" THEN "private key not provided"
    ELSE IF key = "bad" THEN "invalid private key: decode: invalid base58 digit"
    ELSE NoErr

\* what GetTransactionFeesAndEarnings can return for the swap: an error,
\* or the fees and earnings in lamports
ChainLookups ==
    {[ok |-> FALSE, fees |-> 0, earnings |-> 0]}
      \cup {[ok |-> TRUE, fees |-> f, earnings |-> e] :
                f \in {5000, 7000}, e \in {400000, 1000000}}

\* priceService.GetCurrentPrice, in USD per SOL (0: no price yet)
SolPrices == {0, 200}

\* airdrop.AmountUsd of the token sold
SaleUsd == {"0.08", "0.20"}

\* fmt's %.6f of an amount of SOL held in lamports: millionths of a SOL,
\* rounded
Round6(x) == IF x >= 0 THEN (x + 500) \div 1000 ELSE 0 - ((500 - x) \div 1000)

\* fmt's %.2f of an amount of SOL held in lamports, taken at solPrice: cents
Round2Usd(x, solPrice) ==
    IF x >= 0 THEN (x * solPrice + 5000000) \div 10000000
    ELSE 0 - ((5000000 - x * solPrice) \div 10000000)

\* TokenSeller.handleSuccessfulSale: the log lines and the "sold"
\* notification it puts out; earnings and fees are amounts of SOL, held in
\* lamports
HandleSuccessfulSale(amountLpt, txHash, earnings, fees, solPrice) ==
    LET netProfitSol == earnings - fees IN
    [txHash |-> txHash,
     amountLpt |-> amountLpt,
     earnings |-> Round6(earnings),
     fees |-> Round6(fees),
     netProfit |-> Round6(netProfitSol),
     earningsUsd |-> Round2Usd(earnings, solPrice),
     feesUsd |-> Round2Usd(fees, solPrice),
     netProfitUsd |-> Round2Usd(netProfitSol, solPrice),
     profitSummary |-> [Last24h |-> netProfitSol, LastWeek |-> netProfitSol,
                        ProjectedWeek |-> netProfitSol * 7],
     solPrice |-> solPrice]

\* estimatedFees of handleSuccessfulSaleWithEstimate, 0.000005 SOL, in lamports
EstimatedFees == 5000

\* TokenSeller.handleSuccessfulSaleWithEstimate; usdValue in thousandths of
\* a dollar
HandleSuccessfulSaleWithEstimate(amountLpt, txHash, usdValue, solPrice) ==
    LET estimatedSolReceived ==
            IF solPrice > 0 THEN (usdValue * 1000000) \div solPrice ELSE 0
    IN HandleSuccessfulSale(amountLpt, txHash, estimatedSolReceived, EstimatedFees, solPrice)

\* SellToken after the swap returned its signature: the fee lookup, then one
\* of the two handlers
SettleSale(amountLpt, txHash, usd, lookup, solPrice) ==
    IF lookup.ok
    THEN [source |-> "measured",
          output |-> HandleSuccessfulSale(amountLpt, txHash, lookup.earnings,
                                          lookup.fees, solPrice)]
    ELSE [source |-> "estimate",
          output |-> HandleSuccessfulSaleWithEstimate(amountLpt, txHash,
                                                      ParseFloat(usd).v, solPrice)]

\* SellToken up to the retry loop: ParseUint of the amount, then
\* SwapTokenForSol up to GetWallet
SellStart ==
    /\ pc = "sell"
    /\ IF ~ParseUint(sAmountLpt).ok
       THEN /\ sellErr' = "strconv.ParseUint: parsing \"" \o sAmountLpt \o "\": invalid syntax"
            /\ pc' = "sold"
       ELSE IF GetWallet(sKey) # NoErr
       THEN /\ sellErr' = "failed to get wallet: " \o GetWallet(sKey)
            /\ pc' = "sold"
       ELSE /\ sellErr' = NoErr
            /\ pc' = "swap"
    /\ attempt' = 1
    /\ useSharedAccounts' = TRUE
    /\ lastErr' = NoErr
    /\ UNCHANGED <<sAmountLpt, sKey, attemptsMade, sellSent, lastOption, unsupportedSeen>>
    /\ UNCHANGED <<now, keySet, store, tokenPriceHistory, claimedAirdrops,
                   lastTokenRefresh, filteredAirdrops, idx, claimId, claimErr,
                   claimSite, sellTasks, cycleAttempts, swapAttempted, soldNotified, scanErr, slept, refreshOutcome,
                   clientRefresh>>
    /\ UNCHANGED effectVars
    /\ UNCHANGED decisionVars
    /\ UNCHANGED harnessVars

\* one pass of the loop body, to its continue or to the return of the
\* signature, after which SellToken settles the sale and returns nil
SwapAttempt ==
    /\ pc = "swap"
    /\ RetriesLeft(attempt)
    /\ \E outcome \in SwapOutcomes :
         /\ attemptsMade' = attemptsMade + 1
         /\ lastOption' = IF outcome = "quote" THEN "none"
                          ELSE IF useSharedAccounts THEN "shared" ELSE "plain"
         /\ unsupportedSeen' = (unsupportedSeen \/ outcome = "unsupported")
         /\ IF outcome = "ok"
            THEN /\ sellSent' = sellSent + 1
                 /\ sellErr' = NoErr
                 /\ pc' = "sold"
                 /\ \E usd \in SaleUsd, lookup \in ChainLookups, solPrice \in SolPrices :
                      sale' = SettleSale(sAmountLpt, "swap-sig", usd, lookup, solPrice)
                 /\ UNCHANGED <<attempt, useSharedAccounts, lastErr>>
            ELSE /\ lastErr' = AttemptError(outcome)
                 /\ UNCHANGED sale
                 /\ useSharedAccounts' =
                        IF outcome \in {"unsupported", "build"}
                        THEN SharedAccountsAfter(useSharedAccounts, outcome)
                        ELSE useSharedAccounts
                 /\ attempt' = attempt + 1
                 /\ UNCHANGED <<pc, sellSent, sellErr>>
    /\ UNCHANGED <<sAmountLpt, sKey>>
    /\ UNCHANGED <<now, keySet, store, tokenPriceHistory, claimedAirdrops,
                   lastTokenRefresh, filteredAirdrops, idx, claimId, claimErr,
                   claimSite, sellTasks, cycleAttempts, swapAttempted, soldNotified, scanErr, slept, refreshOutcome,
                   clientRefresh>>
    /\ UNCHANGED effectVars
    /\ UNCHANGED decisionVars
    /\ UNCHANGED <<cancelled, saved, profit>>

\* the loop ends without a signature: the aggregate error, which SellToken
\* hands on
SwapExhausted ==
    /\ pc = "swap"
    /\ ~RetriesLeft(attempt)
    /\ sellErr' = "all 10 attempts failed to swap token: " \o lastErr
    /\ pc' = "sold"
    /\ UNCHANGED <<sAmountLpt, sKey, attempt, useSharedAccounts, lastErr,
                   attemptsMade, sellSent, lastOption, unsupportedSeen>>
    /\ UNCHANGED <<now, keySet, store, tokenPriceHistory, claimedAirdrops,
                   lastTokenRefresh, filteredAirdrops, idx, claimId, claimErr,
                   claimSite, sellTasks, cycleAttempts, swapAttempted, soldNotified, scanErr, slept, refreshOutcome,
                   clientRefresh>>
    /\ UNCHANGED effectVars
    /\ UNCHANGED decisionVars
    /\ UNCHANGED harnessVars

InitSell ==
    /\ pc = "sell"
    /\ keySet = TRUE
    /\ store = EmptyMap
    /\ filteredAirdrops = <<>>
    /\ ServiceInit
    /\ DecisionIdle
    /\ sAmountLpt \in {"1000", "12x"}
    /\ sKey \in {"", "bad", "ok"}
    /\ attempt = 1
    /\ useSharedAccounts = TRUE
    /\ lastErr = NoErr
    /\ sellErr = NoErr
    /\ attemptsMade = 0
    /\ sellSent = 0
    /\ lastOption = "none"
    /\ unsupportedSeen = FALSE
    /\ HarnessIdle

NextSell ==
    \/ SellStart
    \/ SwapAttempt
    \/ SwapExhausted

\* the call runs on its own goroutine or inside the polling task: nothing
\* keeps it from taking its next step
SpecSell == InitSell /\ [][NextSell]_vars /\ WF_vars(NextSell)

(***************************************************************************)
(* The PriceTracker on its own: any sequence of UpdatePriceData calls as   *)
(* the clock advances.                                                     *)
(***************************************************************************)
\* the amountUsd strings handed to UpdatePriceData
TrackerUsd == {"0.08", "0.20", "0.2", "", "n/a"}

InitTracker ==
    /\ pc = "track"
    /\ keySet = TRUE
    /\ store = EmptyMap
    /\ filteredAirdrops = <<>>
    /\ ServiceInit
    /\ DecisionIdle
    /\ SellIdle
    /\ HarnessIdle

Observe ==
    /\ pc = "track"
    /\ \E id \in AirdropIDs, usd \in TrackerUsd :
         tokenPriceHistory' =
             UpdatePriceData(tokenPriceHistory, AirdropNode(id, usd, "1000", Nil), now)
    /\ UNCHANGED <<pc, now, keySet, store, claimedAirdrops,
                   lastTokenRefresh, filteredAirdrops, idx, claimId, claimErr,
                   claimSite, sellTasks, cycleAttempts, swapAttempted, soldNotified,
                   scanErr, slept, refreshOutcome, clientRefresh>>
    /\ UNCHANGED effectVars
    /\ UNCHANGED decisionVars
    /\ UNCHANGED sellVars
    /\ UNCHANGED harnessVars

\* ten minutes pass between two calls
TrackerTick ==
    /\ pc = "track"
    /\ now < MaxTime
    /\ now' = now + 1
    /\ UNCHANGED <<pc, keySet, store, tokenPriceHistory, claimedAirdrops,
                   lastTokenRefresh, filteredAirdrops, idx, claimId, claimErr,
                   claimSite, sellTasks, cycleAttempts, swapAttempted, soldNotified,
                   scanErr, slept, refreshOutcome, clientRefresh>>
    /\ UNCHANGED effectVars
    /\ UNCHANGED decisionVars
    /\ UNCHANGED sellVars
    /\ UNCHANGED harnessVars

NextTracker ==
    \/ Observe
    \/ TrackerTick

SpecTracker == InitTracker /\ [][NextTracker]_vars

(***************************************************************************)
(* The AirdropStore on its own: any sequence of SaveAirdrop calls.         *)
(***************************************************************************)
InitStore ==
    /\ pc = "store"
    /\ keySet = TRUE
    /\ store = EmptyMap
    /\ filteredAirdrops = <<>>
    /\ ServiceInit
    /\ DecisionIdle
    /\ SellIdle
    /\ HarnessIdle

Save ==
    /\ pc = "store"
    /\ Len(saved) < MaxSaves
    /\ \E airdrop \in AirdropVariants :
         /\ store' = SaveAirdrop(store, airdrop)
         /\ saved' = Append(saved, airdrop)
    /\ UNCHANGED <<pc, now, keySet, tokenPriceHistory, claimedAirdrops,
                   lastTokenRefresh, filteredAirdrops, idx, claimId, claimErr,
                   claimSite, sellTasks, cycleAttempts, swapAttempted, soldNotified,
                   scanErr, slept, refreshOutcome, clientRefresh>>
    /\ UNCHANGED effectVars
    /\ UNCHANGED decisionVars
    /\ UNCHANGED sellVars
    /\ UNCHANGED <<cancelled, sale, profit>>

NextStore == Save

SpecStore == InitStore /\ [][NextStore]_vars

(***************************************************************************)
(* The profit of a claim followed by an auto-sell: the part of             *)
(* ClaimAirdropByIDWithConfig after the swap returned its signature.       *)
(***************************************************************************)
\* fees, in lamports
FeeValues == {5000, 10000, 2000000}

\* earnings of the swap, in lamports
EarningValues == {0, 4000, 12000, 1000000, 3000000}

CalculateNetProfitFromClaimAndSwap_NoFloor(claimFees, swapFees, swapEarnings) ==
    swapEarnings - claimFees - swapFees

\* StatsRecorder.CalculateNetProfitFromClaimAndSwap; the result is an
\* amount of SOL, held in lamports (the arguments stay far below 2^63, so
\* the conversions to int64 keep them)
CalculateNetProfitFromClaimAndSwap(claimFees, swapFees, swapEarnings) ==
    LET netProfitLamports == swapEarnings - claimFees - swapFees IN
    IF netProfitLamports < 0 THEN 0 ELSE netProfitLamports

\* the claim transaction cost claimFee, the swap cost swapFees and brought
\* swapEarnings; claimFeeRead is whether the fee lookup of the claim
\* transaction before the swap succeeded
InitProfit ==
    /\ pc = "profit"
    /\ keySet = TRUE
    /\ store = EmptyMap
    /\ filteredAirdrops = <<>>
    /\ ServiceInit
    /\ DecisionIdle
    /\ SellIdle
    /\ cancelled = FALSE
    /\ saved = <<>>
    /\ sale = NoSale
    /\ profit \in {[done |-> FALSE, claimFee |-> c, claimFeeRead |-> r,
                     swapFees |-> f, swapEarnings |-> e, netProfit |-> 0] :
                       c \in FeeValues, r \in BOOLEAN, f \in FeeValues,
                       e \in EarningValues}

\* the swap statistics were read: claimFees is the fee read before the swap,
\* or still 0, and the net profit is computed from it
RecordProfit ==
    /\ pc = "profit"
    /\ ~profit.done
    /\ LET claimFees == IF profit.claimFeeRead THEN profit.claimFee ELSE 0 IN
         profit' = [profit EXCEPT
                      !.done = TRUE,
                      !.netProfit = CalculateNetProfitFromClaimAndSwap(
                                        claimFees, profit.swapFees, profit.swapEarnings)]
    /\ UNCHANGED serviceVars
    /\ UNCHANGED decisionVars
    /\ UNCHANGED sellVars
    /\ UNCHANGED <<cancelled, saved, sale>>

NextProfit == RecordProfit

SpecProfit == InitProfit /\ [][NextProfit]_vars

(***************************************************************************)
(* Claims.                                                                 *)
(***************************************************************************)
\* the amount of the airdrop handed to the DecisionMaker, parsed
dUsd == ParseFloat(dAirdrop.AmountUsd)

\* time.Since(LastChanged) and time.Since(FirstObserved) at the evaluation
dStableTime == dNow - dPriceInfo.LastChanged
dObservedTime == dNow - dPriceInfo.FirstObserved

\* C1: once an airdrop id is in claimedAirdrops, no step of a polling cycle
\* hands that id to ClaimAirdropByID: every call the loop makes (a first
\* attempt or a retry) is for an id outside the set as the step finds it.
C1_NoClaimOnceClaimed ==
    [][Len(cycleAttempts') > Len(cycleAttempts)
         => cycleAttempts'[Len(cycleAttempts')] \notin claimedAirdrops]_vars

\* C1 witness: a1 entered the set without ever being tracked (a scan
\* delivered it with claimedAt set), a later scan delivered it unclaimed at
\* a value above the threshold, and the cycle ended without a claim call.
C1_Witness ==
    /\ pc = "wait"
    /\ cycleAttempts = <<>>
    /\ "a1" \in claimedAirdrops
    /\ "a1" \in DOMAIN store
    /\ "a1" \notin DOMAIN tokenPriceHistory
    /\ store["a1"].ClaimedAt = Nil
    /\ ParseFloat(store["a1"].AmountUsd).v >= MinimumUsdThreshold

\* C2: within one cycle ClaimAirdropByID is called for at most one airdrop
\* id, and once handleClaimResult has run the cycle is over: no airdrop
\* beyond the attempted position is attempted.
C2_OneClaimPerCycle ==
    /\ Cardinality(Range(cycleAttempts)) <= 1
    /\ (pc = "wait" /\ cycleAttempts # <<>>)
          => /\ idx \in 1..Len(filteredAirdrops)
             /\ Range(cycleAttempts) = {filteredAirdrops[idx].ID}

\* C2 witness: the cycle is over with two airdrops in the filtered list, the
\* first one attempted and its claim failed, the second still unclaimed.
C2_Witness ==
    /\ pc = "wait"
    /\ Len(filteredAirdrops) = 2
    /\ cycleAttempts # <<>>
    /\ claimErr # NoErr
    /\ filteredAirdrops[2].ID \notin claimedAirdrops

\* C3: with a price observation and amountUsd >= minimumUsdThreshold,
\* ShouldClaim returns true whatever lastChanged and firstObserved are.
C3_ImmediateTier ==
    ("claim" \in dEvaluated /\ dPriceInfo.present /\ dUsd.ok /\ dUsd.v >= dThreshold)
        => dClaim

\* C3 witness: an amount equal to the threshold, observed and changed in the
\* instant of the evaluation, evaluated to true.
C3_Witness ==
    /\ "claim" \in dEvaluated
    /\ dPriceInfo.present
    /\ dUsd.ok
    /\ dUsd.v = dThreshold
    /\ dStableTime = 0
    /\ dObservedTime = 0
    /\ dClaim

C5_NoObservation ==
    ("claim" \in dEvaluated /\ ~dPriceInfo.present) => ~dClaim

\* C5 witness: an amount at or above the threshold, no observation,
\* evaluated to false.
C5_Witness ==
    /\ "claim" \in dEvaluated
    /\ ~dPriceInfo.present
    /\ dUsd.ok
    /\ dUsd.v >= dThreshold
    /\ ~dClaim

\* C6: ShouldSellDirectly returns true iff claimedAt is set, an observation
\* exists, amountUsd >= 0.10 and both times are at least 10 minutes.
C6_SellDirectly ==
    "sell" \in dEvaluated
        => (dSell <=> /\ dAirdrop.ClaimedAt # Nil
                      /\ dPriceInfo.present
                      /\ dUsd.ok
                      /\ dUsd.v >= SellFloor
                      /\ dStableTime >= TenMinutes
                      /\ dObservedTime >= TenMinutes)

\* C6 witness: a claimed airdrop worth exactly 0.10, stable and observed for
\* exactly 10 minutes, evaluated to true.
C6_Witness ==
    /\ "sell" \in dEvaluated
    /\ dAirdrop.ClaimedAt # Nil
    /\ dPriceInfo.present
    /\ dUsd.v = SellFloor
    /\ dStableTime = TenMinutes
    /\ dObservedTime = TenMinutes
    /\ dSell

\* C7: claimedAirdrops only grows: no step removes an id from it.
C7_ClaimedSetGrows ==
    [][claimedAirdrops \subseteq claimedAirdrops']_vars

\* C7 witness: a1 is in the set after its claim, and a later scan has
\* delivered it again with claimedAt nil (the store holds that record, the
\* price history the observation made before the claim).
C7_Witness ==
    /\ pc = "wait"
    /\ cycleAttempts = <<>>
    /\ "a1" \in claimedAirdrops
    /\ "a1" \in DOMAIN tokenPriceHistory
    /\ store["a1"].ClaimedAt = Nil
    /\ ParseFloat(store["a1"].AmountUsd).v # tokenPriceHistory["a1"].LastPrice

\* C8: an id enters claimedAirdrops only in the step that handles a claim of
\* it that succeeded or failed with a permanent error, or in a scan step
\* that delivered it with claimedAt set; handling a claim that failed with
\* any other error leaves the set unchanged.
C8_ClaimedSetCauses ==
    [][/\ \A id \in claimedAirdrops' \ claimedAirdrops :
            \/ /\ pc = "result"
               /\ claimId = id
               /\ (claimErr = NoErr \/ IsPermanentClaimError(claimErr))
            \/ /\ pc = "scan"
               /\ id \in DOMAIN store'
               /\ store'[id].ClaimedAt # Nil
       /\ (pc = "result" /\ claimErr # NoErr /\ ~IsPermanentClaimError(claimErr))
            => claimedAirdrops' = claimedAirdrops]_vars

\* C8 witness: the cycle is over after a claim that failed with an error
\* that is not permanent, and the id is not in the set.
C8_Witness ==
    /\ pc = "wait"
    /\ claimErr # NoErr
    /\ ~IsPermanentClaimError(claimErr)
    /\ claimId \notin claimedAirdrops

\* C9: when the claim of an airdrop has failed with an error classified
\* permanent, at the end of the cycle the id is in claimedAirdrops, no swap
\* was attempted for it and no "sold" notification was sent for it.
C9_PermanentError ==
    (pc = "wait" /\ claimErr # NoErr /\ IsPermanentClaimError(claimErr))
        => /\ claimId \in claimedAirdrops
           /\ claimId \notin swapAttempted
           /\ claimId \notin soldNotified

\* C9 witness: the cycle is over after a claim that failed at the
\* derivation of the merkle distributor address.
C9_Witness ==
    /\ pc = "wait"
    /\ claimSite = "merkle"
    /\ IsPermanentClaimError(claimErr)
    /\ claimId \in claimedAirdrops

\* the return statements of ClaimAirdropByIDWithConfig behind the three
\* permanent failure classes, and behind the other failures
PermanentSites == {"already_claimed", "parse_amount", "merkle"}
TransientSites == {"not_found", "no_key", "blockhash", "send"}

C11_PermanentNeverRetried ==
    /\ pc = "retry" => ~IsPermanentClaimError(claimErr)
    /\ (pc = "wait" /\ claimErr # NoErr /\ IsPermanentClaimError(claimErr))
         => /\ cycleAttempts = <<claimId>>
            /\ claimId \in claimedAirdrops

\* C12: a claim that fails with an authentication error is retried, once,
\* for the same id, and the retry is issued only after refreshAuthToken has
\* refreshed the credentials; ClaimAirdropByID is never called more than
\* twice in a cycle.
C12_RetryAfterRefresh ==
    /\ Len(cycleAttempts) <= 2
    /\ pc = "retry" => (claimErr # NoErr /\ IsAuthError(claimErr))
    /\ (pc = "result" /\ Len(cycleAttempts) = 1)
         => ~(claimErr # NoErr /\ IsAuthError(claimErr))
    /\ (pc \in {"result", "wait"} /\ Len(cycleAttempts) = 2)
         => /\ cycleAttempts[1] = cycleAttempts[2]
            /\ refreshOutcome = "ok"

\* C13: no two credential refreshes lie in one 30-minute window: a refresh
\* by the service (refreshAuthToken) or by the API client
\* (executeGraphQLRequest) is performed only when the latest refresh of the
\* service is at least 30 minutes old or there was none, and a scan never
\* performs both.  (A refresh is performed when config.RefreshAuthToken
\* succeeds.)
C13_RefreshThrottle ==
    [][/\ ((refreshOutcome = "none" /\ refreshOutcome' = "ok")
            \/ (clientRefresh = "none" /\ clientRefresh' = "ok"))
           => (lastTokenRefresh = Zero \/ now - lastTokenRefresh >= ThirtyMinutes)
       /\ ~(clientRefresh' = "ok" /\ refreshOutcome' = "ok")]_vars

\* C14: when the loop comes round after a failed scan, the task has slept
\* the 3-second backoff alone after a network error, and the 30-second
\* backoff alone after any other error.
C14_ScanBackoff ==
    (pc = "loop" /\ scanErr # NoErr)
        => slept = IF IsNetworkError(scanErr) THEN <<NetworkBackoff>>
                   ELSE <<ScanErrorBackoff>>

\* C15: when a scan returns an airdrop with claimedAt set and an amount of
\* at least 0.10 that is not in claimedAirdrops, processAndFilterAirdrops
\* tracks its price, and starts a sell task for it when the tracker shows it
\* stable and observed for at least 10 minutes.
C15_DirectSell ==
    [][(pc = "scan" /\ pc' = "claim")
         => \A id \in DOMAIN store' :
              (/\ store'[id].ClaimedAt # Nil
               /\ ParseFloat(store'[id].AmountUsd).ok
               /\ ParseFloat(store'[id].AmountUsd).v >= SellFloor
               /\ id \notin claimedAirdrops)
                 => /\ id \in DOMAIN tokenPriceHistory'
                    /\ ShouldSellDirectly(store'[id],
                           GetTokenPriceInfo(tokenPriceHistory', id), now)
                         => id \in sellTasks']_vars

\* C16: when the sale that follows a claim has failed (the swap was
\* attempted, no "sold" notification went out), the id is not in
\* claimedAirdrops at the end of the cycle, so that a later cycle can sell.
C16_FailedSaleNotSettled ==
    (pc = "wait" /\ claimId \in swapAttempted /\ claimId \notin soldNotified)
        => claimId \notin claimedAirdrops

\* what SellToken returns when every pass of the loop failed
AllAttemptsFailed == "all 10 attempts failed to swap token: " \o lastErr

\* C17 as stated: at most 10 attempts, at most one transaction submitted,
\* which ends the call with success, and an error iff all 10 attempts
\* failed, wrapping the last failure.
C17_AsStated ==
    /\ attemptsMade <= MaxRetries
    /\ sellSent <= 1
    /\ sellSent = 1 => (pc = "sold" /\ sellErr = NoErr)
    /\ pc = "sold"
         => (sellErr # NoErr <=> (attemptsMade = MaxRetries /\ sellSent = 0))
    /\ (pc = "sold" /\ sellErr # NoErr)
         => (lastErr # NoErr /\ sellErr = AllAttemptsFailed)

\* C17 amended: at most 10 attempts, at most one transaction submitted,
\* which ends the call with success; the call returns an error iff it
\* submitted nothing, which is when the amount does not parse or the wallet
\* key does not load (no attempt made) or all 10 attempts failed (the
\* error wrapping the last failure); and the call always returns.
C17_SellTokenBounded ==
    /\ [](/\ attemptsMade <= MaxRetries
          /\ sellSent <= 1
          /\ sellSent = 1 => (pc = "sold" /\ sellErr = NoErr)
          /\ pc = "sold" => (sellErr # NoErr <=> sellSent = 0)
          /\ (pc = "sold" /\ sellErr # NoErr)
               => \/ /\ attemptsMade = 0
                     /\ (~ParseUint(sAmountLpt).ok \/ GetWallet(sKey) # NoErr)
                  \/ /\ attemptsMade = MaxRetries
                     /\ ParseUint(sAmountLpt).ok
                     /\ GetWallet(sKey) = NoErr
                     /\ lastErr # NoErr
                     /\ sellErr = AllAttemptsFailed
                     /\ (lastOption = "none" <=> Contains(sellErr, "failed to get swap quote")))
    /\ <>(pc = "sold")

\* C17 witness: the call returned the aggregate error after 10 attempts.
C17_Witness ==
    /\ pc = "sold"
    /\ attemptsMade = MaxRetries
    /\ sellSent = 0
    /\ sellErr = AllAttemptsFailed

\* C18: a swap-transaction request asks for shared accounts iff no earlier
\* request of the call reported them unsupported, and a transaction that is
\* submitted ends the call with no error.
C18_SharedAccountsFallback ==
    [][/\ (attemptsMade' = attemptsMade + 1 /\ lastOption' # "none")
            => (lastOption' = "shared" <=> ~unsupportedSeen)
       /\ sellSent' = sellSent + 1 => (pc' = "sold" /\ sellErr' = NoErr)]_vars

\* C18 witness: a request reported shared accounts unsupported, later
\* attempts failed too, and a still later one, without shared accounts,
\* submitted the transaction.
C18_Witness ==
    /\ pc = "sold"
    /\ sellErr = NoErr
    /\ sellSent = 1
    /\ unsupportedSeen
    /\ lastOption = "plain"
    /\ attemptsMade >= 3

\* C19: ClaimAirdropByID fails with the store's not-found error when the
\* store has no record of the id, and with the already-claimed error when
\* the record has claimedAt set; in both cases it sends no transaction and
\* no notification, attempts no swap, and leaves the store as it was.
C19_NotFoundAlreadyClaimed ==
    [][Len(cycleAttempts') > Len(cycleAttempts)
         => /\ claimId' \notin DOMAIN store
                 => /\ claimErr' = "failed to get airdrop: airdrop with ID "
                                       \o claimId' \o " not found"
                    /\ UNCHANGED <<store, txSubmitted, claimNotified, swapAttempted,
                                   soldNotified>>
            /\ (claimId' \in DOMAIN store /\ store[claimId'].ClaimedAt # Nil)
                 => /\ claimErr' = "airdrop " \o claimId' \o " is already claimed"
                    /\ UNCHANGED <<store, txSubmitted, claimNotified, swapAttempted,
                                   soldNotified>>]_vars

\* C19 witness: the claim of an airdrop whose stored record has claimedAt
\* set has failed, and nothing was sent.
C19_Witness ==
    /\ pc = "result"
    /\ claimId \in DOMAIN store
    /\ store[claimId].ClaimedAt # Nil
    /\ claimErr # NoErr
    /\ txSubmitted = {}
    /\ claimNotified = {}

\* C20: when ClaimAirdropByID has returned success and handleClaimResult has
\* put the id in claimedAirdrops, the claim transaction has landed on chain.
C20_SuccessMeansConfirmed ==
    (pc = "wait" /\ claimId # NoId /\ claimErr = NoErr /\ claimId \in claimedAirdrops)
        => claimId \in txConfirmed

(***************************************************************************)
(* The polling loop and the price history.                                 *)
(***************************************************************************)
\* processAirdrops up to the range loop, for the response resp: what
\* processAndFilterAirdrops leaves
ScanOutcome(resp) ==
    ProcessAndFilterAirdrops(ValuableAirdrops(resp, ScanThreshold),
        [claimed |-> claimedAirdrops, history |-> tokenPriceHistory,
         filtered |-> <<>>, sells |-> {}],
        now, MinimumUsdThreshold)

\* the amount of an airdrop lies in the stability band
InBand(airdrop) ==
    LET usd == ParseFloat(airdrop.AmountUsd) IN
    usd.ok /\ usd.v > StabilityFloor /\ usd.v < MinimumUsdThreshold

C29_ObservedBeforeDecision ==
    [][(pc = "scan" /\ pc' = "claim") =>
         \A id \in DOMAIN store' \ DOMAIN store :
           LET a == store'[id]
               usd == ParseFloat(a.AmountUsd)
           IN (a.ClaimedAt = Nil /\ usd.ok /\ usd.v >= MinimumUsdThreshold)
                => /\ id \in DOMAIN tokenPriceHistory'
                   /\ tokenPriceHistory'[id].FirstObserved = now
                   /\ a \in Range(filteredAirdrops')]_vars

\* C29 witness: the first scan of the run collected an airdrop.
C29_Witness ==
    /\ pc = "claim"
    /\ cycleAttempts = <<>>
    /\ filteredAirdrops # <<>>
    /\ \A id \in DOMAIN tokenPriceHistory : tokenPriceHistory[id].FirstObserved = now
    /\ \A id \in DOMAIN store : id \in DOMAIN tokenPriceHistory


(***************************************************************************)
(* PriceTracker and AirdropStore.                                          *)
(***************************************************************************)
\* C23: in every state a sequence of UpdatePriceData calls can reach, and
\* for every next call: an unparsable value leaves the history as it is;
\* the first value that parses for an id stores it with firstObserved and
\* lastChanged at the clock; afterwards firstObserved never changes, a
\* value equal to lastPrice leaves the observation as it is, a different
\* value stores the value with lastChanged at the clock; no other id is
\* touched; and lastChanged is never earlier than firstObserved.
C23_TrackerInvariants ==
    pc = "track" =>
      /\ \A id \in DOMAIN tokenPriceHistory :
           tokenPriceHistory[id].LastChanged >= tokenPriceHistory[id].FirstObserved
      /\ \A id \in AirdropIDs, usd \in TrackerUsd :
           LET parsed == ParseFloat(usd)
               after == UpdatePriceData(tokenPriceHistory,
                                        AirdropNode(id, usd, "1000", Nil), now)
               old == GetTokenPriceInfo(tokenPriceHistory, id)
               new == GetTokenPriceInfo(after, id)
           IN /\ \A other \in AirdropIDs \ {id} :
                    GetTokenPriceInfo(after, other)
                        = GetTokenPriceInfo(tokenPriceHistory, other)
              /\ ~parsed.ok => new = old
              /\ (parsed.ok /\ ~old.present)
                   => new = TokenPriceInfo(parsed.v, now, now)
              /\ (parsed.ok /\ old.present /\ old.LastPrice = parsed.v)
                   => new = old
              /\ (parsed.ok /\ old.present /\ old.LastPrice # parsed.v)
                   => new = TokenPriceInfo(parsed.v, now, old.FirstObserved)

\* C23 witness: an observation whose value changed ten minutes or more
\* after it was first made, and has stood for ten minutes or more since.
C23_Witness ==
    /\ pc = "track"
    /\ \E id \in DOMAIN tokenPriceHistory :
         /\ tokenPriceHistory[id].LastChanged > tokenPriceHistory[id].FirstObserved
         /\ tokenPriceHistory[id].LastChanged < now
         /\ tokenPriceHistory[id].LastPrice = ParseFloat("0.2").v

\* the latest airdrop with this id among those saved
LastSaved(id) ==
    LET last == CHOOSE i \in 1..Len(saved) :
                    /\ saved[i].ID = id
                    /\ \A j \in (i + 1)..Len(saved) : saved[j].ID # id
    IN saved[last]

\* C26: after any sequence of SaveAirdrop calls the store holds the ids
\* saved and no others, one record for each, equal to the airdrop saved
\* last under that id; and saving an airdrop a second time leaves the
\* store as the first save left it.
C26_SaveUpsert ==
    pc = "store" =>
      /\ DOMAIN store = {saved[i].ID : i \in 1..Len(saved)}
      /\ \A id \in DOMAIN store : store[id] = LastSaved(id)
      /\ Cardinality(GetAllAirdrops(store)) = Cardinality(DOMAIN store)
      /\ \A airdrop \in AirdropVariants :
           SaveAirdrop(SaveAirdrop(store, airdrop), airdrop) = SaveAirdrop(store, airdrop)

\* C26 witness: an id was saved twice with different records, another id
\* once.
C26_Witness ==
    /\ pc = "store"
    /\ Cardinality(DOMAIN store) = 2
    /\ \E i, j \in 1..Len(saved) :
         i < j /\ saved[i].ID = saved[j].ID /\ saved[i] # saved[j]

(***************************************************************************)
(* The termination signal.                                                 *)
(***************************************************************************)
\* id is in the list processAndFilterAirdrops returned
Eligible(id) == \E i \in 1..Len(filteredAirdrops) : filteredAirdrops[i].ID = id

\* C21: if the loop keeps cycling and an airdrop is claim-eligible in every
\* cycle and never enters claimedAirdrops, a claim is eventually attempted
\* for it.
C21_NoStarvation ==
    \A id \in AirdropIDs :
      (/\ []<>(pc = "claim")
       /\ [](pc \in {"claim", "retry", "result"} => Eligible(id))
       /\ [](id \notin claimedAirdrops))
        => <>(id \in Range(cycleAttempts))

\* C22: when the signal is set while the task waits between two cycles, the
\* task leaves the wait by stopping, without sleeping the check interval.
C22_InterruptibleWait ==
    [][(cancelled /\ pc = "wait" /\ pc' # pc)
         => (pc' = "stopped" /\ slept' = slept)]_vars

C27_EstimateDistinguishable ==
    sale.source = "estimate" =>
      \A lookup \in {l \in ChainLookups : l.ok}, usd \in SaleUsd, solPrice \in SolPrices :
        SettleSale(sAmountLpt, sale.output.txHash, usd, lookup, solPrice).output
            # sale.output

====
